---- MODULE Spec2Model ----
(***************************************************************************)
(* Model of the blobstash storage core.                                    *)
(*                                                                         *)
(*  - vkv: the versioned key-value store of src/vkv/vkv.go, over an        *)
(*    ordered byte-keyed backend (cznic/kv).  Raw keys and counter values  *)
(*    are modelled as byte sequences, exactly as the code encodes them.    *)
(*  - blobsfile: the packed-file blob engine.  Its code is not part of     *)
(*    the source tree (only its tests and callers are), so it is modelled  *)
(*    from the specification text.                                         *)
(*  - db lists: Ladd, Llen, Liter and Ldel of src/db/list.go, over LevelDB.  *)
(*  - gitserver: the reference storage of src/pkg/gitserver/gitserver.go,   *)
(*    over the key-value store.                                            *)
(***************************************************************************)
EXTENDS Integers, Sequences, FiniteSets, TLC

VARIABLES
    kv,        \* vkv backend: raw key (byte sequence) -> value (byte sequence)
    mu,        \* vkv DB.mu: 0 when free, else the process holding it
    pc,        \* per process: position inside DB.Put
    loc,       \* per process: locals of DB.Put
    nputs,     \* number of Put calls started so far
    hist,      \* history: <<key, version>> -> value of the last item write of a Put(key, _, version)
    returned,  \* history: <<key, version>> of every Put that has returned
    scan,      \* the Versions / Keys call in progress: its enumerator and result
    bcfg,      \* blob engine: configuration [compression, writeOnly]
    bdata,     \* blob engine: data files; bdata[n + 1] holds the bytes of blobs-n
    bindex,    \* blob engine: index, hash -> [file, offset, size, flags]
    bpc,       \* blob engine: per writer, position inside put
    bloc,      \* blob engine: per writer, locals and last result of put
    bmu,       \* blob engine: writer lock, 0 when free
    bnputs,    \* number of blob put calls started so far
    brestarts, \* history: the restarts so far, each [kind, nputs at the restart]
    bput,      \* history: set of blobs whose put has succeeded
    ldb,       \* db lists: the LevelDB store, raw key -> value
    lmu,       \* db lists: db.mutex, list key -> 0 when free, else the holder
    lpc,       \* db lists: per process, position inside Ladd / Ldel
    lloc,      \* db lists: per process, locals of Ladd / Ldel
    lnops      \* number of Ladd / Ldel calls started so far

vkvVars == <<kv, mu, pc, loc, nputs, hist, returned>>
listVars == <<ldb, lmu, lpc, lloc, lnops>>
blobVars == <<bcfg, bdata, bindex, bpc, bloc, bmu, bnputs, brestarts, bput>>
vars == <<kv, mu, pc, loc, nputs, hist, returned, scan,
          bcfg, bdata, bindex, bpc, bloc, bmu, bnputs, brestarts, bput,
          ldb, lmu, lpc, lloc, lnops>>

----------------------------------------------------------------------------
(* Bounds of the model *)

\* versions below 2^32 range over 0..MaxVersion
MaxVersion == 2
\* clock values (nanosecond timestamps) range over 2^32 + (1..MaxClock)
MaxClock == 1
\* Put calls per behaviour, sequential specification
MaxPuts == 3
\* Put calls per behaviour, concurrent specification
MaxConcPuts == 2

----------------------------------------------------------------------------
(* Bytes and integer encodings (encoding/binary) *)

(* A Go int (64 bits) is the pair <<hi, lo>> of its 32-bit words, of value  *)
(* hi * 2^32 + lo; a uint32 is a number.  The conversions between the two   *)
(* are the ones the code applies.                                           *)

\* uint32(v) of an int v: the low word
Uint32(v) == v[2]

\* int(u) of a uint32 u
ToInt(u) == <<0, u>>

\* a < b on ints
IntLess(a, b) == a[1] < b[1] \/ (a[1] = b[1] /\ a[2] < b[2])

IntLeq(a, b) == a = b \/ IntLess(a, b)

\* the int -1, which Put and Get take for "no version given"
MinusOne == <<-1, -1>>

\* the result of a backend Get for a key that does not exist (nil)
NIL == <<256>>

\* binary.LittleEndian.PutUint32
PutLE32(n) ==
    << n % 256, (n \div 256) % 256, (n \div 65536) % 256, (n \div 16777216) % 256 >>

\* binary.BigEndian.PutUint32
PutBE32(n) ==
    << (n \div 16777216) % 256, (n \div 65536) % 256, (n \div 256) % 256, n % 256 >>

\* binary.LittleEndian.Uint32
LE32(b) == b[1] + 256 * b[2] + 65536 * b[3] + 16777216 * b[4]

\* binary.BigEndian.Uint32
BE32(b) == 16777216 * b[1] + 65536 * b[2] + 256 * b[3] + b[4]

\* bytes.Compare(a, b) < 0
BytesLess(a, b) ==
    \E i \in 1..(Len(a) + 1) :
        /\ \A j \in 1..(i - 1) : j <= Len(b) /\ a[j] = b[j]
        /\ i <= Len(b)
        /\ (i = Len(a) + 1 \/ a[i] < b[i])

BytesLeq(a, b) == a = b \/ BytesLess(a, b)

----------------------------------------------------------------------------
(* Raw key namespaces and codecs of vkv *)

Empty == 0
Meta == 1
KvKeyIndex == 2
KvItem == 3
KvVersionCnt == 4
KvVersionMin == 5
KvVersionMax == 6

\* encodeKey: the raw key of the item of `key` at version `index`
encodeKey(key, index) ==
    <<KvItem>> \o PutLE32(Len(key)) \o key \o PutBE32(Uint32(index))

\* decodeKey: (user key, version) of a raw item key
decodeKey(raw) ==
    LET klen == LE32(SubSeq(raw, 2, 5))
    IN  [key |-> SubSeq(raw, 6, 5 + klen),
         index |-> ToInt(BE32(SubSeq(raw, Len(raw) - 3, Len(raw))))]

encodeMeta(keyByte, key) == <<keyByte>> \o key

\* a counter key that leaves the user key out: one counter for all keys
CntKeyGlobal(key) == encodeMeta(Meta, <<KvVersionCnt>>)

\* the raw key of the version counter of `key` (VersionCnt / Put)
CntKey(key) == encodeMeta(Meta, encodeMeta(KvVersionCnt, key))

----------------------------------------------------------------------------
(* The ordered backend (cznic/kv), as the code uses it *)

\* kv.DB.Get: the value, or nil when the key does not exist
DbGet(store, key) == IF key \in DOMAIN store THEN store[key] ELSE NIL

\* kv.DB.Set
DbSet(store, key, val) ==
    [r \in (DOMAIN store) \cup {key} |-> IF r = key THEN val ELSE store[r]]

\* DB.getUint32: 0 for a missing key
getUint32(store, key) ==
    LET data == DbGet(store, key)
    IN  IF data = NIL THEN 0 ELSE LE32(data)

\* the Set of DB.putUint32
putUint32(store, key, value) == DbSet(store, key, PutLE32(value))

\* DB.VersionCnt
VersionCnt(store, key) == getUint32(store, CntKey(key))

VersionMin(store, key) == getUint32(store, encodeMeta(KvVersionMin, key))

VersionMax(store, key) == getUint32(store, encodeMeta(KvVersionMax, key))

----------------------------------------------------------------------------
(* Inputs *)

Procs == {1, 2}

\* user keys: "a", "b" (same length as "a") and "ab" (has "a" as a prefix)
Keys == { <<97>>, <<98>>, <<97, 98>> }

\* values: "" and "x"
Values == { <<>>, <<120>> }

\* time.Now().UTC().UnixNano(): nanosecond timestamps are above 2^32
ClockValues == { <<1, c>> : c \in 1..MaxClock }

\* versions a caller can pass to Put, Get and Versions
Versions == { ToInt(c) : c \in 0..MaxVersion } \cup ClockValues

----------------------------------------------------------------------------
(* DB.Put, one action per backend operation.  The locals of a call are kept  *)
(* in loc[p]; pc[p] names the operation the call performs next.              *)

IdleLoc ==
    [key |-> <<>>, value |-> <<>>, version |-> ToInt(0),
     cmin |-> 0, cmax |-> 0, llen |-> -1, cval |-> NIL, tmp |-> 0]

AllIdle == \A p \in Procs : pc[p] = "idle"

\* vkv.go:184: is version_max written?
NeedMax(l) == l.cmax = 0 \/ IntLess(ToInt(l.cmax), l.version)

\* vkv.go:179: is version_min written?
NeedMin(l) == l.llen = 0 \/ IntLess(l.version, ToInt(l.cmin))

AfterMin(l) == IF NeedMax(l) THEN "putMax" ELSE "getItem"

AfterReads(l) == IF NeedMin(l) THEN "putMin" ELSE AfterMin(l)

\* vkv.go:159-163: the call, with its arguments drawn from the given sets;
\* version -1 is replaced by the clock
PutCallFrom(p, limit, keys, values, versions) ==
    /\ pc[p] = "idle"
    /\ nputs < limit
    /\ \E k \in keys, val \in values, ver \in versions, now \in ClockValues :
         loc' = [loc EXCEPT ![p] =
                   [IdleLoc EXCEPT !.key = k, !.value = val,
                                   !.version = IF ver = MinusOne THEN now ELSE ver]]
    /\ pc' = [pc EXCEPT ![p] = "getMin"]
    /\ nputs' = nputs + 1
    /\ UNCHANGED <<kv, mu, hist, returned>>
    /\ UNCHANGED blobVars
    /\ UNCHANGED scan
    /\ UNCHANGED listVars

PutCall(p, limit) ==
    PutCallFrom(p, limit, Keys, Values, Versions \cup {MinusOne})

\* vkv.go:164: cmin, err := db.getUint32(encodeMeta(KvVersionMin, bkey))
PutGetMin(p) ==
    /\ pc[p] = "getMin"
    /\ loc' = [loc EXCEPT ![p].cmin = VersionMin(kv, loc[p].key)]
    /\ pc' = [pc EXCEPT ![p] = "getMax"]
    /\ UNCHANGED <<kv, mu, nputs, hist, returned>>
    /\ UNCHANGED blobVars
    /\ UNCHANGED scan
    /\ UNCHANGED listVars

\* vkv.go:168-173: cmax, err := db.getUint32(encodeMeta(KvVersionMax, bkey))
PutGetMax(p) ==
    /\ pc[p] = "getMax"
    /\ LET l == [loc[p] EXCEPT !.cmax = VersionMax(kv, loc[p].key)]
       IN  /\ loc' = [loc EXCEPT ![p] = l]
           /\ pc' = [pc EXCEPT ![p] =
                       IF l.cmin = 0 /\ l.cmax = 0 THEN "getCnt" ELSE AfterReads(l)]
    /\ UNCHANGED <<kv, mu, nputs, hist, returned>>
    /\ UNCHANGED blobVars
    /\ UNCHANGED scan
    /\ UNCHANGED listVars

\* vkv.go:174: llen, err = db.VersionCnt(key)
PutGetCnt(p) ==
    /\ pc[p] = "getCnt"
    /\ LET l == [loc[p] EXCEPT !.llen = VersionCnt(kv, loc[p].key)]
       IN  /\ loc' = [loc EXCEPT ![p] = l]
           /\ pc' = [pc EXCEPT ![p] = AfterReads(l)]
    /\ UNCHANGED <<kv, mu, nputs, hist, returned>>
    /\ UNCHANGED blobVars
    /\ UNCHANGED scan
    /\ UNCHANGED listVars

\* vkv.go:180: db.putUint32(encodeMeta(KvVersionMin, bkey), uint32(version)),
\* the lock, the Set and the unlock of putUint32
PutSetMin(p) ==
    /\ pc[p] = "putMin"
    /\ mu = 0
    /\ kv' = putUint32(kv, encodeMeta(KvVersionMin, loc[p].key), Uint32(loc[p].version))
    /\ pc' = [pc EXCEPT ![p] = AfterMin(loc[p])]
    /\ UNCHANGED <<mu, loc, nputs, hist, returned>>
    /\ UNCHANGED blobVars
    /\ UNCHANGED scan
    /\ UNCHANGED listVars

\* vkv.go:185: db.putUint32(encodeMeta(KvVersionMax, bkey), uint32(version))
PutSetMax(p) ==
    /\ pc[p] = "putMax"
    /\ mu = 0
    /\ kv' = putUint32(kv, encodeMeta(KvVersionMax, loc[p].key), Uint32(loc[p].version))
    /\ pc' = [pc EXCEPT ![p] = "getItem"]
    /\ UNCHANGED <<mu, loc, nputs, hist, returned>>
    /\ UNCHANGED blobVars
    /\ UNCHANGED scan
    /\ UNCHANGED listVars

\* a Put that increments version_count whether or not the item exists
NeedIncrAlways(cval) == TRUE

\* vkv.go:194: is version_count incremented?
NeedIncr(cval) == cval = NIL

\* vkv.go:189-194: cval, err := db.db.Get(nil, kmember)
PutGetItem(p) ==
    /\ pc[p] = "getItem"
    /\ LET cval == DbGet(kv, encodeKey(loc[p].key, loc[p].version))
       IN  /\ loc' = [loc EXCEPT ![p].cval = cval]
           /\ pc' = [pc EXCEPT ![p] = IF NeedIncr(cval) THEN "incrGet" ELSE "setItem"]
    /\ UNCHANGED <<kv, mu, nputs, hist, returned>>
    /\ UNCHANGED blobVars
    /\ UNCHANGED scan
    /\ UNCHANGED listVars

\* incrUint32, vkv.go:104-115: take the mutex and read the counter
PutIncrGet(p) ==
    /\ pc[p] = "incrGet"
    /\ mu = 0
    /\ mu' = p
    /\ loc' = [loc EXCEPT ![p].tmp = getUint32(kv, CntKey(loc[p].key))]
    /\ pc' = [pc EXCEPT ![p] = "incrSet"]
    /\ UNCHANGED <<kv, nputs, hist, returned>>
    /\ UNCHANGED blobVars
    /\ UNCHANGED scan
    /\ UNCHANGED listVars

\* vkv.go:117: the counter value incrUint32 writes back (it wraps only after
\* 2^32 increments, far beyond the calls of a behaviour)
incrValue(value, step) == value + step

\* incrUint32, vkv.go:116-119: write value+step and release the mutex
PutIncrSet(p) ==
    /\ pc[p] = "incrSet"
    /\ mu = p
    /\ kv' = DbSet(kv, CntKey(loc[p].key), PutLE32(incrValue(loc[p].tmp, 1)))
    /\ mu' = 0
    /\ pc' = [pc EXCEPT ![p] = "setItem"]
    /\ UNCHANGED <<loc, nputs, hist, returned>>
    /\ UNCHANGED blobVars
    /\ UNCHANGED scan
    /\ UNCHANGED listVars

\* vkv.go:200: db.db.Set(kmember, []byte(value))
PutSetItem(p) ==
    /\ pc[p] = "setItem"
    /\ kv' = DbSet(kv, encodeKey(loc[p].key, loc[p].version), loc[p].value)
    /\ hist' = [h \in (DOMAIN hist) \cup {<<loc[p].key, loc[p].version>>} |->
                  IF h = <<loc[p].key, loc[p].version>> THEN loc[p].value ELSE hist[h]]
    /\ pc' = [pc EXCEPT ![p] = "setIndex"]
    /\ UNCHANGED <<mu, loc, nputs, returned>>
    /\ UNCHANGED blobVars
    /\ UNCHANGED scan
    /\ UNCHANGED listVars

\* vkv.go:203-210: db.db.Set(encodeMeta(KvKeyIndex, bkey), []byte{}) and the return
PutSetIndex(p) ==
    /\ pc[p] = "setIndex"
    /\ kv' = DbSet(kv, encodeMeta(KvKeyIndex, loc[p].key), <<>>)
    /\ returned' = returned \cup {<<loc[p].key, loc[p].version>>}
    /\ loc' = [loc EXCEPT ![p] = IdleLoc]
    /\ pc' = [pc EXCEPT ![p] = "idle"]
    /\ UNCHANGED <<mu, nputs, hist>>
    /\ UNCHANGED blobVars
    /\ UNCHANGED scan
    /\ UNCHANGED listVars

PutStep(p) ==
    \/ PutGetMin(p)
    \/ PutGetMax(p)
    \/ PutGetCnt(p)
    \/ PutSetMin(p)
    \/ PutSetMax(p)
    \/ PutGetItem(p)
    \/ PutIncrGet(p)
    \/ PutIncrSet(p)
    \/ PutSetItem(p)
    \/ PutSetIndex(p)

\* Put calls run one at a time: a call starts when no call is in progress
SeqCall(p) == AllIdle /\ PutCall(p, MaxPuts)

\* Put calls of different goroutines overlap
ConcCall(p) == PutCall(p, MaxConcPuts)

----------------------------------------------------------------------------
(* Readers of vkv, as functions of the backend state they read *)

\* DB.Get; a missing item yields the empty value (string(nil)) and no error
Get(store, key, version) ==
    LET v == IF version = MinusOne THEN ToInt(VersionMax(store, key)) ELSE version
        val == DbGet(store, encodeKey(key, v))
    IN  [key |-> key, version |-> v, value |-> IF val = NIL THEN <<>> ELSE val]

\* the error DB.Get returns, vkv.go:219-228: the backend's error if a read
\* fails, else nil; the backend reads of the model succeed, and a missing
\* counter or item (data == nil) is not an error
NoError == "nil"

GetErr(store, key, version) == NoError

\* the raw keys >= from in bytewise order: the enumerator Seek returns
RECURSIVE SortRaw(_)
SortRaw(S) ==
    IF S = {} THEN <<>>
    ELSE LET m == CHOOSE x \in S : \A y \in S : BytesLeq(x, y)
         IN  <<m>> \o SortRaw(S \ {m})

Seek(store, from) == SortRaw({r \in DOMAIN store : BytesLeq(from, r)})

\* the loop of DB.Versions, vkv.go:248-262, over the enumerator `enum`
RECURSIVE VersionsLoop(_, _, _, _, _, _)
VersionsLoop(store, enum, endBytes, limit, i, res) ==
    IF enum = <<>> THEN res
    ELSE LET k == Head(enum)
         IN  IF BytesLess(endBytes, k) \/ (limit # 0 /\ i > limit) THEN res
             ELSE VersionsLoop(store, Tail(enum), endBytes, limit, i + 1,
                               Append(res, [value |-> store[k],
                                            version |-> decodeKey(k).index]))

\* DB.Versions
VersionsOf(store, key, start, end, limit) ==
    VersionsLoop(store, Seek(store, encodeKey(key, start)),
                 encodeKey(key, end), limit, 0, <<>>)

\* vkv.go:278 without the comparison with endBytes: the scan stops only on the limit
KeysStopOnLimitOnly(k, endBytes, limit, i) == limit # 0 /\ i > limit

\* vkv.go:278: the test that ends the scan of DB.Keys
KeysStop(k, endBytes, limit, i) ==
    BytesLess(endBytes, k) \/ (limit # 0 /\ i > limit)

\* the loop of DB.Keys, vkv.go:273-283, over the enumerator `enum`
RECURSIVE KeysLoop(_, _, _, _, _)
KeysLoop(enum, endBytes, limit, i, res) ==
    IF enum = <<>> THEN res
    ELSE LET k == Head(enum)
         IN  IF KeysStop(k, endBytes, limit, i) THEN res
             ELSE KeysLoop(Tail(enum), endBytes, limit, i + 1, Append(res, Tail(k)))

\* DB.Keys
KeysOf(store, start, end, limit) ==
    KeysLoop(Seek(store, encodeMeta(KvKeyIndex, start)),
             encodeMeta(KvKeyIndex, end), limit, 0, <<>>)

----------------------------------------------------------------------------
(* Specifications of vkv *)

\* no Versions / Keys call has been made
ScanIdle ==
    [st |-> "idle", op |-> "", key |-> <<>>, cur |-> NIL, endBytes |-> <<>>,
     res |-> <<>>, snap |-> [r \in {} |-> <<>>], n |-> 0]

\* list keys, "a" and "ab"
LKeys == { <<97>>, <<97, 98>> }

\* the locals of a list call that has not started
LIdleLoc == [op |-> "", key |-> <<>>, index |-> 0, value |-> <<>>,
             cval |-> NIL, tmp |-> 0, kvs |-> <<>>]

\* an empty LevelDB store, no list call in progress
ListStart ==
    /\ ldb = [r \in {} |-> <<>>]
    /\ lmu = [k \in LKeys |-> 0]
    /\ lpc = [p \in Procs |-> "idle"]
    /\ lloc = [p \in Procs |-> LIdleLoc]
    /\ lnops = 0

\* New: an empty store, no call in progress
VkvInit ==
    /\ kv = [r \in {} |-> <<>>]
    /\ mu = 0
    /\ pc = [p \in Procs |-> "idle"]
    /\ loc = [p \in Procs |-> IdleLoc]
    /\ nputs = 0
    /\ hist = [h \in {} |-> <<>>]
    /\ returned = {}
    /\ scan = ScanIdle

\* the locals of a blob put that has not been called
BIdleLoc == [hash |-> 0, blob |-> <<>>, rec |-> <<>>, entry |-> 0, res |-> ""]

\* a new blob engine on an empty directory: blobs-00000 is created empty
BlobStart ==
    /\ bdata = << <<>> >>
    /\ bindex = [h \in {} |-> 0]
    /\ bpc = [p \in Procs |-> "idle"]
    /\ bloc = [p \in Procs |-> BIdleLoc]
    /\ bmu = 0
    /\ bnputs = 0
    /\ brestarts = <<>>
    /\ bput = {}

Init ==
    /\ VkvInit
    /\ ListStart
    /\ bcfg = [compression |-> FALSE, writeOnly |-> FALSE]
    /\ BlobStart

\* Puts run one at a time
Next == SeqCall(1) \/ PutStep(1)

Spec == Init /\ [][Next]_vars

\* Puts of two goroutines interleave at every backend operation
NextConc == \E p \in Procs : ConcCall(p) \/ PutStep(p)

SpecConc == Init /\ [][NextConc]_vars

\* Put calls per behaviour, key-listing specification
MaxKeyPuts == 4

\* user keys of the key-listing specification: "a", "b", "ba", "c" and
\* "a\xffb" (prefix "a", then 0xff, then a further byte)
ListKeys == { <<97>>, <<98>>, <<98, 97>>, <<99>>, <<97, 255, 98>> }

\* versions of the key-listing specification
ListVersions == { ToInt(1), ToInt(2) }

\* a Put on one of the listing keys starts when no call is in progress
ListCall(p) ==
    AllIdle /\ PutCallFrom(p, MaxKeyPuts, ListKeys, {<<120>>}, ListVersions)

\* Puts on the listing keys, one at a time
NextKeys == ListCall(1) \/ PutStep(1)

SpecKeys == Init /\ [][NextKeys]_vars

\* Put calls per behaviour, specification with backend failures
MaxFailPuts == 2

\* the backend operations of Put that only read, before its first write
ReadOps == { "getMin", "getMax", "getCnt" }

\* the two Sets that end Put, after the item was looked up and counted
SetOps == { "setItem", "setIndex" }

\* where a Put stands after one of its backend operations has returned an
\* error: before its first write, at one of its last two Sets, or in between
ErrPc(op) ==
    IF op \in ReadOps THEN "errRead"
    ELSE IF op \in SetOps THEN "errSet" ELSE "err"

ErrPcs == { "errRead", "err", "errSet" }

\* the backend operation the Put of p is about to perform returns an error
\* (vkv.go:165,169,175,180,185,191,195,200,203); incrUint32 releases the
\* mutex on its way out (defer, vkv.go:105)
PutFail(p) ==
    /\ pc[p] \notin {"idle"} \cup ErrPcs
    /\ pc' = [pc EXCEPT ![p] = ErrPc(pc[p])]
    /\ mu' = IF mu = p THEN 0 ELSE mu
    /\ UNCHANGED <<kv, loc, nputs, hist, returned>>
    /\ UNCHANGED blobVars
    /\ UNCHANGED scan
    /\ UNCHANGED listVars

\* `return nil, err`: the Put returns the error
PutReturnErr(p) ==
    /\ pc[p] \in ErrPcs
    /\ pc' = [pc EXCEPT ![p] = "idle"]
    /\ loc' = [loc EXCEPT ![p] = IdleLoc]
    /\ UNCHANGED <<kv, mu, nputs, hist, returned>>
    /\ UNCHANGED blobVars
    /\ UNCHANGED scan
    /\ UNCHANGED listVars

FailCall(p) == AllIdle /\ PutCall(p, MaxFailPuts)

\* Puts run one at a time and any backend operation may fail
NextFail == FailCall(1) \/ PutStep(1) \/ PutFail(1) \/ PutReturnErr(1)

SpecFail == Init /\ [][NextFail]_vars

----------------------------------------------------------------------------
(* DB.Versions and DB.Keys as they run: a Seek, then one enum.Next per turn *)
(* of the loop, on the store as it is at that moment.  They take no lock,   *)
(* and the enumerator of the backend resumes on the mutated tree.           *)

\* Put calls and range reads per behaviour, specification with scans
MaxScanPuts == 2
MaxScans == 1

ScanKeys == { <<97>>, <<98>> }

ScanVersions == { ToInt(1), ToInt(2) }

\* the least raw key of a set, NIL for none (io.EOF)
FirstRaw(S) == IF S = {} THEN NIL ELSE CHOOSE x \in S : \A y \in S : BytesLeq(x, y)

\* db.db.Seek(from): the enumerator stands on the first raw key >= from
SeekAt(store, from) == FirstRaw({ r \in DOMAIN store : BytesLeq(from, r) })

\* the enumerator moves to the first raw key after k
NextAfter(store, k) == FirstRaw({ r \in DOMAIN store : BytesLess(k, r) })

\* vkv.go:236-246: Versions(key, 0, MaxVersion, 0) up to its Seek
ScanVersionsCall ==
    /\ scan.st \in {"idle", "done"}
    /\ scan.n < MaxScans
    /\ \E k \in ScanKeys :
         scan' = [st |-> "walk", op |-> "versions", key |-> k,
                  cur |-> SeekAt(kv, encodeKey(k, ToInt(0))),
                  endBytes |-> encodeKey(k, ToInt(MaxVersion)),
                  res |-> <<>>, snap |-> kv, n |-> scan.n + 1]
    /\ UNCHANGED vkvVars
    /\ UNCHANGED blobVars
    /\ UNCHANGED listVars

\* vkv.go:266-273: Keys("", "\xff", 0) up to its Seek
ScanKeysCall ==
    /\ scan.st \in {"idle", "done"}
    /\ scan.n < MaxScans
    /\ scan' = [st |-> "walk", op |-> "keys", key |-> <<>>,
                cur |-> SeekAt(kv, encodeMeta(KvKeyIndex, <<>>)),
                endBytes |-> encodeMeta(KvKeyIndex, <<255>>),
                res |-> <<>>, snap |-> kv, n |-> scan.n + 1]
    /\ UNCHANGED vkvVars
    /\ UNCHANGED blobVars
    /\ UNCHANGED listVars

\* what the loop appends for the raw key k: vkv.go:256-260 and vkv.go:281
ScanEntry(store, op, k) ==
    IF op = "versions" THEN [value |-> store[k], version |-> decodeKey(k).index]
    ELSE Tail(k)

\* one turn of the loop, vkv.go:248-262 and vkv.go:274-283: enum.Next, the
\* test of the end of the range, the append
ScanNext ==
    /\ scan.st = "walk"
    /\ IF scan.cur = NIL \/ BytesLess(scan.endBytes, scan.cur)
       THEN scan' = [scan EXCEPT !.st = "done"]
       ELSE scan' = [scan EXCEPT !.res = Append(@, ScanEntry(kv, scan.op, scan.cur)),
                                 !.cur = NextAfter(kv, scan.cur)]
    /\ UNCHANGED vkvVars
    /\ UNCHANGED blobVars
    /\ UNCHANGED listVars

ScanPutCall(p) ==
    PutCallFrom(p, MaxScanPuts, ScanKeys, {<<120>>}, ScanVersions)

\* one goroutine puts while another reads a range
NextScan ==
    \/ ScanPutCall(1)
    \/ PutStep(1)
    \/ ScanVersionsCall
    \/ ScanKeysCall
    \/ ScanNext

SpecScan == Init /\ [][NextScan]_vars

----------------------------------------------------------------------------
(* What the store holds and what the callers wrote *)

\* the versions of `key` that have an item in the store
StoredVersions(store, key) ==
    { decodeKey(r).index :
        r \in { x \in DOMAIN store : x[1] = KvItem /\ decodeKey(x).key = key } }

\* the versions callers passed to the Puts on `key` that wrote their item
WrittenVersions(key) == { h[2] : h \in { x \in DOMAIN hist : x[1] = key } }

\* the versions of the Puts on `key` that are in progress
RunningVersions(key) ==
    { loc[p].version : p \in { q \in Procs : pc[q] # "idle" /\ loc[q].key = key } }

\* every Put made on `key` so far had a version below 2^32
OnlySmallVersions(key) ==
    \A v \in WrittenVersions(key) \cup RunningVersions(key) : v[1] = 0

\* the versions of a Versions result, and whether they ascend strictly
ResultVersions(res) == { res[i].version : i \in 1..Len(res) }

Ascending(res) ==
    \A i \in 1..(Len(res) - 1) : IntLess(res[i].version, res[i + 1].version)

----------------------------------------------------------------------------
(* Claims *)

\* C1: after any sequence of completed Puts run one at a time, version_min(k)
\* is <= every version of k that has a stored item and version_max(k) is >=
\* every such version.  (Refuted: a version >= 2^32 is stored truncated.)
C1_MinMaxBoundStored ==
    AllIdle =>
        \A k \in Keys : \A v \in StoredVersions(kv, k) :
            /\ IntLeq(ToInt(VersionMin(kv, k)), v)
            /\ IntLeq(v, ToInt(VersionMax(kv, k)))

\* C2: after any sequence of completed Puts, VersionCnt(k) equals the number
\* of distinct versions of k that have a stored item, and it is 0 for a key
\* that was never written.
C2_CountIsStoredVersions ==
    AllIdle =>
        \A k \in Keys :
            /\ VersionCnt(kv, k) = Cardinality(StoredVersions(kv, k))
            /\ (WrittenVersions(k) = {} => VersionCnt(kv, k) = 0)

\* C2 witness: three Puts at three versions of one key, the last one between
\* the first two, have completed and the count is 3.
C2_Witness ==
    /\ AllIdle
    /\ nputs = 3
    /\ \E k \in Keys :
         /\ StoredVersions(kv, k) = { ToInt(0), ToInt(1), ToInt(2) }
         /\ VersionCnt(kv, k) = 3

\* C3: after completed Puts on k, Get(k, -1) returns the version
\* version_max(k) and the value last written at that version.  (Refuted: a
\* Put at a version >= 2^32 overwrites the item of the truncated version.)
C3_GetLatest ==
    AllIdle =>
        \A k \in Keys :
            WrittenVersions(k) # {} =>
                LET g == Get(kv, k, MinusOne)
                IN  /\ g.version = ToInt(VersionMax(kv, k))
                    /\ (<<k, g.version>> \in DOMAIN hist
                          => g.value = hist[<<k, g.version>>])

\* C4: Versions(k, start, end, 0) returns exactly the stored versions v of k
\* with start <= v <= end, each once, in strictly ascending order, with the
\* value of each, and no item of another key.  (Refuted: start and end are
\* truncated to 32 bits.)
C4_VersionsExact ==
    AllIdle =>
        \A k \in Keys, start \in Versions, end \in Versions :
            LET res == VersionsOf(kv, k, start, end, 0)
                want == { v \in StoredVersions(kv, k) :
                            IntLeq(start, v) /\ IntLeq(v, end) }
            IN  /\ ResultVersions(res) = want
                /\ Len(res) = Cardinality(want)
                /\ Ascending(res)
                /\ \A i \in 1..Len(res) :
                     res[i].value = kv[encodeKey(k, res[i].version)]

\* C8: when Puts on one key with different versions run concurrently, after
\* all have returned version_max(k) is the largest of the versions and
\* version_min(k) is <= the smallest.  Stated for keys whose Puts all had
\* versions below 2^32.  (Refuted: the mutex is not held across the read of
\* the counters and their update.)
C8_ConcurrentMinMax ==
    AllIdle =>
        \A k \in Keys :
            (WrittenVersions(k) # {} /\ OnlySmallVersions(k)) =>
                /\ \A v \in WrittenVersions(k) : IntLeq(v, ToInt(VersionMax(kv, k)))
                /\ ToInt(VersionMax(kv, k)) \in WrittenVersions(k)
                /\ \A v \in WrittenVersions(k) : IntLeq(ToInt(VersionMin(kv, k)), v)

\* C9: once Put(k, v, t) has returned, every Get(k, -1) that starts afterwards
\* returns a version >= t, whatever other Puts on k run concurrently.  Stated
\* for keys whose Puts all had versions below 2^32.  (Refuted: a concurrent
\* Put that read version_max before t was recorded writes its lower version.)
C9_GetAfterPut ==
    \A r \in returned :
        OnlySmallVersions(r[1]) => IntLeq(r[2], Get(kv, r[1], MinusOne).version)

\* C10: when Puts for the same (key, version) run concurrently and no item
\* existed there before, version_count(key) is incremented exactly once.
\* (Refuted: both Puts find the item absent before either writes it.)
C10_CountOncePerVersion ==
    AllIdle =>
        \A k \in Keys :
            (Cardinality(WrittenVersions(k)) = 1 /\ OnlySmallVersions(k))
                => VersionCnt(kv, k) = 1

----------------------------------------------------------------------------
(* Key listing *)

\* the user keys on which a Put has written its item
WrittenKeys == { h[1] : h \in DOMAIN hist }

\* p is a prefix of the byte string k
IsPrefix(p, k) == Len(p) <= Len(k) /\ SubSeq(k, 1, Len(p)) = p

\* the elements of a sequence
Range(seq) == { seq[i] : i \in 1..Len(seq) }

\* prefixes and range limits asked of Keys
Prefixes == { <<>>, <<97>>, <<98>>, <<97, 255>> }

KeyLimits == ListKeys \cup { <<>>, <<255>>, <<97, 255>> }

\* C11: for every prefix p, Keys(p, p + "\xff", 0) returns exactly the set of
\* keys ever written that start with p, including a key whose byte after p
\* is 0xff followed by further bytes.  (Refuted: such a key is above the end
\* of the scanned range.)
C11_KeysByPrefix ==
    AllIdle =>
        \A p \in Prefixes :
            Range(KeysOf(kv, p, p \o <<255>>, 0))
                = { k \in WrittenKeys : IsPrefix(p, k) }

\* C12: Keys(start, end, 0) returns every written user key k with
\* start <= k <= end bytewise, in ascending order, each exactly once however
\* many versions it has, and never a raw key of the item or counter
\* namespaces.
C12_KeysRange ==
    AllIdle =>
        \A start \in KeyLimits, end \in KeyLimits :
            LET res == KeysOf(kv, start, end, 0)
                want == { k \in WrittenKeys : BytesLeq(start, k) /\ BytesLeq(k, end) }
            IN  /\ Range(res) = want
                /\ Len(res) = Cardinality(want)
                /\ \A i \in 1..(Len(res) - 1) : BytesLess(res[i], res[i + 1])

\* C12 witness: a key written at two versions and two more keys are listed
\* by Keys("", "\xff", 0), three keys in all.
C12_Witness ==
    /\ AllIdle
    /\ \E k \in ListKeys : Cardinality(StoredVersions(kv, k)) = 2
    /\ Len(KeysOf(kv, <<>>, <<255>>, 0)) = 3

----------------------------------------------------------------------------
(* Limits of the range reads *)

\* versions below 2^32 a caller can pass
SmallVersions == { ToInt(c) : c \in 0..MaxVersion }

\* the first n elements of a sequence
Take(seq, n) == SubSeq(seq, 1, IF n < Len(seq) THEN n ELSE Len(seq))

\* C13: for limit > 0, Versions(k, start, end, limit) returns at most limit
\* entries, the limit lowest stored versions of k in [start, end].  Stated for
\* keys whose Puts all had versions below 2^32.  (Refuted: the scan stops
\* when i > limit, after limit + 1 entries.)
C13_VersionsLimit ==
    AllIdle =>
        \A k \in Keys :
            OnlySmallVersions(k) =>
                \A start \in SmallVersions, end \in SmallVersions, limit \in 1..MaxVersion :
                    LET res == VersionsOf(kv, k, start, end, limit)
                    IN  /\ Len(res) <= limit
                        /\ res = Take(VersionsOf(kv, k, start, end, 0), limit)

\* C30: Versions(k, start, end, limit) with start > end returns an empty
\* list and no error, whatever versions of k and whatever other keys are
\* stored.  (Refuted: start and end are cut to 32 bits in the raw keys, so a
\* start of 2^32 + 1 above an end of 2 scans from version 1 to version 2.)
C30_VersionsEmptyRange ==
    AllIdle =>
        \A k \in Keys, start \in Versions, end \in Versions, limit \in 0..MaxVersion :
            IntLess(end, start) => VersionsOf(kv, k, start, end, limit) = <<>>

\* C14: for limit > 0, Keys(start, end, limit) returns at most limit keys,
\* the first limit keys of the range: with a, b, ba, c each written once,
\* Keys("", "\xff", 2) returns [a, b].  (Refuted: the scan stops when
\* i > limit, after limit + 1 keys.)
C14_KeysLimit ==
    AllIdle =>
        /\ \A limit \in 1..MaxKeyPuts :
              LET res == KeysOf(kv, <<>>, <<255>>, limit)
              IN  /\ Len(res) <= limit
                  /\ res = Take(KeysOf(kv, <<>>, <<255>>, 0), limit)
        /\ (WrittenKeys = { <<97>>, <<98>>, <<98, 97>>, <<99>> } /\ nputs = 4)
              => KeysOf(kv, <<>>, <<255>>, 2) = << <<97>>, <<98>> >>

----------------------------------------------------------------------------
(* Errors and special values *)

\* C15: Get returns NotFound when there is nothing to return: Get(k, -1) on
\* a key that was never written, and Get(k, v) at a version where k has no
\* item; checked once a Put has returned.  (Refuted: Get returns a KeyValue
\* with the empty value and no error.)
C15_GetNotFound ==
    (AllIdle /\ returned # {}) =>
        \A k \in Keys :
            /\ (VersionMax(kv, k) = 0 /\ StoredVersions(kv, k) = {})
                  => GetErr(kv, k, MinusOne) = "NotFound"
            /\ \A v \in SmallVersions :
                  v \notin StoredVersions(kv, k) => GetErr(kv, k, v) = "NotFound"

\* the raw keys a Put(key, _, version) writes
PutRawKeys(key, version) ==
    { encodeMeta(KvVersionMin, key), encodeMeta(KvVersionMax, key), CntKey(key),
      encodeKey(key, version), encodeMeta(KvKeyIndex, key) }

\* C16: Put(key, value, 0) is rejected and changes nothing: no item at
\* version 0, no counter and no key-existence marker is written.  Stated for
\* the keys on which every Put so far had version 0.  (Refuted: the Put is
\* carried out like any other.)
C16_PutZeroRejected ==
    \A k \in Keys :
        (WrittenVersions(k) \cup RunningVersions(k)) \subseteq { ToInt(0) }
            => PutRawKeys(k, ToInt(0)) \cap DOMAIN kv = {}

\* the versions Versions(key, v, v, 0) lists
ListedAt(store, key, v) == ResultVersions(VersionsOf(store, key, v, v, 0))

\* C17: a version written with an empty value is a stored version like any
\* other: Get at that version returns the empty value and not NotFound,
\* Versions lists it, and Versions does not list a version that was never
\* written.  (Refuted: a tombstone written at a version >= 2^32 is listed
\* under the truncated version, which may never have been written.)
C17_TombstoneStored ==
    AllIdle =>
        \A k \in Keys, v \in Versions :
            /\ (<<k, v>> \in DOMAIN hist /\ hist[<<k, v>>] = <<>>)
                  => /\ Get(kv, k, v) = [key |-> k, version |-> v, value |-> <<>>]
                     /\ GetErr(kv, k, v) # "NotFound"
                     /\ v \in ListedAt(kv, k, v)
            /\ v \notin WrittenVersions(k) => v \notin ListedAt(kv, k, v)

----------------------------------------------------------------------------
(* Overwrites and the width of versions *)

\* the Put of process p has written its item where an item already was; the
\* bounds it read at its start (loc[p].cmin, loc[p].cmax) are the ones the
\* store had before the call, as Puts run one at a time, and the count the
\* store had before the call is the number of stored versions, which an
\* overwrite does not change
Overwrote(p) == pc[p] = "setIndex" /\ loc[p].cval # NIL

\* C18: a Put at a (key, version) that already holds an item, also an empty
\* one, overwrites the value and leaves version_count, version_min and
\* version_max of the key unchanged; Versions still lists that version
\* exactly once.  (Refuted: a second Put at a version >= 2^32 finds
\* version_max below it and rewrites version_max with the truncated
\* version, lowering it.)
C18_OverwriteKeepsCounters ==
    \A p \in Procs :
        Overwrote(p) =>
            LET k == loc[p].key
                v == loc[p].version
            IN  /\ DbGet(kv, encodeKey(k, v)) = loc[p].value
                /\ VersionCnt(kv, k) = Cardinality(StoredVersions(kv, k))
                /\ VersionMin(kv, k) = loc[p].cmin
                /\ VersionMax(kv, k) = loc[p].cmax
                /\ Len(VersionsOf(kv, k, v, v, 0)) = 1

\* C19: versions are 64-bit: a Put at a version v >= 2^32, in particular
\* one assigned from the clock, stores the item under v itself, so
\* version_max, Get(k, -1) and Versions report v, and versions that differ
\* only above bit 31 are distinct stored versions.  (Refuted: the version is
\* truncated to uint32 in the raw key and in the counters.)
C19_Versions64Bit ==
    AllIdle =>
        \A k \in Keys :
            /\ StoredVersions(kv, k) = WrittenVersions(k)
            /\ \A v \in WrittenVersions(k) :
                  /\ IntLeq(v, Get(kv, k, MinusOne).version)
                  /\ v \in ListedAt(kv, k, v)

----------------------------------------------------------------------------
(* Failed Puts *)

\* C20: a Put that fails at any of its backend steps is not partially
\* applied: what Get, Versions and VersionCnt return for its key is what
\* they returned before the call (the values the Put read: the latest
\* version loc[p].cmax, the item loc[p].cval, the count loc[p].tmp read
\* before its increment).  Stated for Puts at versions below 2^32.
\* (Refuted: the writes made before the failing step stay.)
C20_FailedPutNotApplied ==
    \A p \in Procs :
        LET k == loc[p].key
            v == loc[p].version
        IN  v[1] = 0 =>
              /\ pc[p] \in {"err", "errSet"} =>
                    Get(kv, k, MinusOne).version = ToInt(loc[p].cmax)
              /\ pc[p] = "errSet" =>
                    /\ DbGet(kv, encodeKey(k, v)) = loc[p].cval
                    /\ Len(VersionsOf(kv, k, v, v, 0)) = (IF loc[p].cval = NIL THEN 0 ELSE 1)
                    /\ loc[p].cval = NIL => VersionCnt(kv, k) = loc[p].tmp

----------------------------------------------------------------------------
(* States a reader observes while a Put is in progress *)

\* C21: in every state a reader can observe, also between the backend
\* writes of a Put in progress, version_count(k) > 0 implies that the
\* key-existence entry of k exists, so that Keys lists k.  (Refuted: Put
\* increments the count before it writes the item and the key entry.)
C21_CountImpliesKeyEntry ==
    \A k \in Keys :
        VersionCnt(kv, k) > 0 =>
            /\ encodeMeta(KvKeyIndex, k) \in DOMAIN kv
            /\ k \in Range(KeysOf(kv, <<>>, <<255>>, 0))

\* what the finished range read returns on the store `store`
ScanResultOn(store) ==
    IF scan.op = "versions"
    THEN VersionsOf(store, scan.key, ToInt(0), ToInt(MaxVersion), 0)
    ELSE KeysOf(store, <<>>, <<255>>, 0)

\* C22: a Versions or Keys scan is isolated from concurrent writes: its
\* result is the content of the store at the moment of its Seek.  (Refuted:
\* the scan walks the live store and returns what a Put wrote meanwhile.)
C22_ScanIsolated ==
    scan.st = "done" => scan.res = ScanResultOn(scan.snap)

----------------------------------------------------------------------------
(* The blob engine (BlobsFile): codecs.  Modelled from the specification.   *)

\* blobs of at least this many bytes are compressed when compression is on
CompressMin == 512

\* the magic "BLOB" and the length of a record header (magic, flags, length)
Magic == <<66, 76, 79, 66>>

HeaderLen == 9

\* soft size cap of a data file (a parameter of open_or_create)
BlobCap == 12
\* blob put calls per behaviour
MaxBlobPuts == 2
\* restarts of the blob engine per behaviour
MaxRestarts == 1

\* the runs <<byte, length>> of equal bytes of a byte sequence
RECURSIVE Runs(_)
Runs(b) ==
    IF b = <<>> THEN <<>>
    ELSE LET n == CHOOSE m \in 1..Len(b) :
                    /\ (m = Len(b) \/ b[m + 1] # b[1])
                    /\ \A i \in 1..m : b[i] = b[1]
         IN  << <<b[1], n>> >> \o Runs(SubSeq(b, n + 1, Len(b)))

\* SHA1(bytes), the content hash: a digest over the whole byte sequence
RECURSIVE Digest(_, _)
Digest(runs, h) ==
    IF runs = <<>> THEN h
    ELSE Digest(Tail(runs), (h * 31 + Head(runs)[1] * 7 + Head(runs)[2]) % 65521)

Sha1Digest(b) == Digest(Runs(b), Len(b) + 1)

\* a blob of one byte, one of two bytes, and a compressible one of CompressMin bytes
Blobs == { <<1>>, <<2, 3>>, [i \in 1..CompressMin |-> 7] }

\* the digests of the blobs callers put, computed once
Sha1Table == [b \in Blobs |-> Sha1Digest(b)]

SHA1(b) == IF b \in Blobs THEN Sha1Table[b] ELSE Sha1Digest(b)

\* Snappy compression: each run becomes <<byte, length div 256, length mod 256>>
RECURSIVE SnappyRuns(_)
SnappyRuns(runs) ==
    IF runs = <<>> THEN <<>>
    ELSE << Head(runs)[1], Head(runs)[2] \div 256, Head(runs)[2] % 256 >>
            \o SnappyRuns(Tail(runs))

SnappyEncode(b) == SnappyRuns(Runs(b))

\* Snappy decompression; trailing bytes that form no run are dropped
RECURSIVE SnappyDecode(_)
SnappyDecode(c) ==
    IF Len(c) < 3 THEN <<>>
    ELSE [i \in 1..(c[2] * 256 + c[3]) |-> c[1]] \o SnappyDecode(SubSeq(c, 4, Len(c)))

\* is a blob of this size compressed under this configuration?
Compresses(compression, size) == compression /\ size >= CompressMin

\* an encoder that compresses without setting the flag
encodeBlobNoFlag(compression, size, blob) ==
    LET z == Compresses(compression, size)
        payload == IF z THEN SnappyEncode(blob) ELSE blob
    IN  Magic \o << 0 >> \o PutBE32(Len(payload)) \o payload

\* encodeBlob: magic, flags, big-endian on-disk length, payload
encodeBlob(compression, size, blob) ==
    LET z == Compresses(compression, size)
        payload == IF z THEN SnappyEncode(blob) ELSE blob
    IN  Magic \o << IF z THEN 1 ELSE 0 >> \o PutBE32(Len(payload)) \o payload

\* a reader that ignores the compression flag
DecodePayloadRaw(flags, payload) == payload

\* the original bytes of a payload stored with these flags
DecodePayload(flags, payload) ==
    IF flags % 2 = 1 THEN SnappyDecode(payload) ELSE payload

\* decodeBlob: the length stored in the header, which is the on-disk length
\* of the payload, and the original bytes of an encoded record
decodeBlob(data) ==
    LET len == BE32(SubSeq(data, 6, 9))
        blob == DecodePayload(data[5], SubSeq(data, HeaderLen + 1, HeaderLen + len))
    IN  [size |-> len, blob |-> blob]

\* a scan that accepts any nine bytes as a record header
ValidRecordNoMagic(file, offset) ==
    /\ offset + HeaderLen <= Len(file)
    /\ offset + HeaderLen + BE32(SubSeq(file, offset + 6, offset + 9)) <= Len(file)

\* does `file` hold a complete record at byte offset `offset`?
ValidRecord(file, offset) ==
    /\ offset + HeaderLen <= Len(file)
    /\ SubSeq(file, offset + 1, offset + 4) = Magic
    /\ offset + HeaderLen + BE32(SubSeq(file, offset + 6, offset + 9)) <= Len(file)

\* the bytes of the record at `offset`
RecordAt(file, offset) ==
    SubSeq(file, offset + 1,
           offset + HeaderLen + BE32(SubSeq(file, offset + 6, offset + 9)))

----------------------------------------------------------------------------
(* The blob engine: index, packed-file writer, put, get and recovery.       *)
(* Modelled from the specification.                                         *)

\* the hashes callers pass to put
Hashes == { SHA1(b) : b \in Blobs }

AllBIdle == \A p \in Procs : bpc[p] = "idle"

\* index put: an existing entry wins
IndexPut(idx, h, e) ==
    IF h \in DOMAIN idx THEN idx
    ELSE [x \in (DOMAIN idx) \cup {h} |-> IF x = h THEN e ELSE idx[x]]

\* an offset taken after the header has been written
AppendOffsetAfter(file) == Len(file) + HeaderLen

\* the offset an appended record gets: the size of the active file before the append
AppendOffset(file) == Len(file)

\* data files with `bytes` appended to the active (highest-numbered) file
AppendBytes(data, bytes) == [data EXCEPT ![Len(data)] = @ \o bytes]

\* a writer that never starts a new file
RotateNever(data) == data

\* the active file is the highest-numbered one while it is below the cap;
\* at the cap it is sealed and the next file is created
Rotate(data) == IF Len(data[Len(data)]) >= BlobCap THEN Append(data, <<>>) ELSE data

\* a put that never finds the hash in the index
AlreadyIndexedNever(idx, h) == FALSE

\* put: is the hash already indexed?
AlreadyIndexed(idx, h) == h \in DOMAIN idx

\* a put that accepts any bytes for any hash
HashMatchesAlways(h, b) == TRUE

\* put: verifies SHA1(bytes) == hash
HashMatches(h, b) == SHA1(b) = h

\* the locals of a put that has returned: its arguments and its result
BReturned(h, b, res) == [BIdleLoc EXCEPT !.hash = h, !.blob = b, !.res = res]

\* put, first part: verify the hash and look the hash up in the index
BPutCheck(p) ==
    /\ bpc[p] = "idle"
    /\ bnputs < MaxBlobPuts
    /\ bnputs' = bnputs + 1
    /\ \E b \in Blobs, h \in Hashes :
         IF ~HashMatches(h, b)
         THEN /\ bloc' = [bloc EXCEPT ![p] = BReturned(h, b, "HashMismatch")]
              /\ UNCHANGED <<bpc, bput>>
         ELSE IF AlreadyIndexed(bindex, h)
         THEN /\ bloc' = [bloc EXCEPT ![p] = BReturned(h, b, "ok")]
              /\ bput' = bput \cup {b}
              /\ UNCHANGED bpc
         ELSE /\ bloc' = [bloc EXCEPT ![p] =
                    [BIdleLoc EXCEPT !.hash = h, !.blob = b,
                                     !.rec = encodeBlob(bcfg.compression, Len(b), b)]]
              /\ bpc' = [bpc EXCEPT ![p] = "append"]
              /\ UNCHANGED bput
    /\ UNCHANGED <<bcfg, bdata, bindex, bmu, brestarts>>
    /\ UNCHANGED vkvVars
    /\ UNCHANGED scan
    /\ UNCHANGED listVars

\* append, first part: take the writer lock and write the record header
BAppendHeader(p) ==
    /\ bpc[p] = "append"
    /\ bmu = 0
    /\ bmu' = p
    /\ bloc' = [bloc EXCEPT ![p].entry =
                  [file |-> Len(bdata) - 1,
                   offset |-> AppendOffset(bdata[Len(bdata)]),
                   size |-> Len(bloc[p].rec) - HeaderLen,
                   flags |-> bloc[p].rec[5]]]
    /\ bdata' = AppendBytes(bdata, SubSeq(bloc[p].rec, 1, HeaderLen))
    /\ bpc' = [bpc EXCEPT ![p] = "payload"]
    /\ UNCHANGED <<bcfg, bindex, bnputs, brestarts, bput>>
    /\ UNCHANGED vkvVars
    /\ UNCHANGED scan
    /\ UNCHANGED listVars

\* append, second part: write the payload, rotate at the cap, release the lock
BAppendPayload(p) ==
    /\ bpc[p] = "payload"
    /\ bmu = p
    /\ bdata' = Rotate(AppendBytes(bdata,
                         SubSeq(bloc[p].rec, HeaderLen + 1, Len(bloc[p].rec))))
    /\ bmu' = 0
    /\ bpc' = [bpc EXCEPT ![p] = "index"]
    /\ UNCHANGED <<bcfg, bindex, bloc, bnputs, brestarts, bput>>
    /\ UNCHANGED vkvVars
    /\ UNCHANGED scan
    /\ UNCHANGED listVars

\* put, last part: record the index entry once the append has returned
BPutIndex(p) ==
    /\ bpc[p] = "index"
    /\ bindex' = IndexPut(bindex, bloc[p].hash, bloc[p].entry)
    /\ bput' = bput \cup {bloc[p].blob}
    /\ bloc' = [bloc EXCEPT ![p] = BReturned(bloc[p].hash, bloc[p].blob, "ok")]
    /\ bpc' = [bpc EXCEPT ![p] = "idle"]
    /\ UNCHANGED <<bcfg, bdata, bmu, bnputs, brestarts>>
    /\ UNCHANGED vkvVars
    /\ UNCHANGED scan
    /\ UNCHANGED listVars

\* a get that returns whatever the record decodes to
VerifiedAlways(h, blob) == TRUE

\* get: re-verifies SHA1 of the decoded bytes before returning them
Verified(h, blob) == SHA1(blob) = h

\* an engine that serves reads whatever its flag
ReadsDisabledNever(cfg) == FALSE

\* write-only mode: the flag disables reads
ReadsDisabled(cfg) == cfg.writeOnly

\* get: look the entry up, read the record, decode it, verify its hash
BlobGet(cfg, data, idx, h) ==
    IF ReadsDisabled(cfg) THEN [err |-> "WriteOnly", blob |-> <<>>]
    ELSE IF h \notin DOMAIN idx THEN [err |-> "NotFound", blob |-> <<>>]
    ELSE LET e == idx[h]
         IN  IF e.file >= Len(data) \/ ~ValidRecord(data[e.file + 1], e.offset)
             THEN [err |-> "IOError", blob |-> <<>>]
             ELSE LET d == decodeBlob(RecordAt(data[e.file + 1], e.offset))
                  IN  IF Verified(h, d.blob)
                      THEN [err |-> "", blob |-> d.blob]
                      ELSE [err |-> "CorruptBlob", blob |-> <<>>]

\* stat: index lookup only
BlobStat(cfg, idx, h) ==
    IF ReadsDisabled(cfg) THEN [err |-> "WriteOnly", exists |-> FALSE]
    ELSE [err |-> "", exists |-> h \in DOMAIN idx]

----------------------------------------------------------------------------
(* Recovery: the index is rebuilt from the data files on start *)

\* scan of one data file from `offset`: the <<hash, entry>> of every record
\* decoded, and the offset behind the last good record
RECURSIVE ScanFile(_, _, _, _)
ScanFile(file, n, offset, acc) ==
    IF ~ValidRecord(file, offset) THEN [entries |-> acc, good |-> offset]
    ELSE LET rec == RecordAt(file, offset)
             e == [file |-> n, offset |-> offset,
                   size |-> Len(rec) - HeaderLen, flags |-> rec[5]]
         IN  ScanFile(file, n, offset + Len(rec),
                      Append(acc, <<SHA1(decodeBlob(rec).blob), e>>))

\* a recovery that leaves the incomplete tail in the file
TruncateTailNone(file, good) == file

\* the file that becomes writable again is cut at its last good offset
TruncateTail(file, good) == SubSeq(file, 1, good)

\* the index entries of the files n.., written over idx in file order
RECURSIVE IndexPutAll(_, _)
IndexPutAll(idx, entries) ==
    IF entries = <<>> THEN idx
    ELSE IndexPutAll(IndexPut(idx, Head(entries)[1], Head(entries)[2]), Tail(entries))

RECURSIVE ScanFiles(_, _, _)
ScanFiles(data, n, idx) ==
    IF n > Len(data) THEN idx
    ELSE ScanFiles(data, n + 1,
                   IndexPutAll(idx, ScanFile(data[n], n - 1, 0, <<>>).entries))

\* the data files and the index after a start that rebuilds the index over idx
Recover(data, idx) ==
    LET last == Len(data)
        cut == [data EXCEPT ![last] =
                  TruncateTail(@, ScanFile(data[last], last - 1, 0, <<>>).good)]
    IN  [data |-> Rotate(cut), index |-> ScanFiles(cut, 1, idx)]

\* a start of the engine; every put in progress is lost with the old process
Restart(kind, idx) ==
    /\ Len(brestarts) < MaxRestarts
    /\ brestarts' = Append(brestarts, [kind |-> kind, nputs |-> bnputs])
    /\ LET r == Recover(bdata, idx)
       IN  /\ bdata' = r.data
           /\ bindex' = r.index
    /\ bpc' = [p \in Procs |-> "idle"]
    /\ bloc' = [p \in Procs |-> BIdleLoc]
    /\ bmu' = 0
    /\ UNCHANGED <<bcfg, bnputs, bput>>
    /\ UNCHANGED vkvVars
    /\ UNCHANGED scan
    /\ UNCHANGED listVars

\* the index directory is deleted and the engine is started again
BDeleteIndexRestart == Restart("delete", [h \in {} |-> 0])

\* the process dies while a put is in progress and the engine is started again:
\* the index is older than the newest data file and is rebuilt
BCrashRestart == ~AllBIdle /\ Restart("crash", bindex)

\* the configurations the engine's tests construct: New(dir, 0, compression, writeOnly)
Configs ==
    { [compression |-> TRUE, writeOnly |-> FALSE],
      [compression |-> FALSE, writeOnly |-> FALSE],
      [compression |-> FALSE, writeOnly |-> TRUE] }

BInit ==
    /\ VkvInit
    /\ ListStart
    /\ bcfg \in Configs
    /\ BlobStart

BNext ==
    \/ \E p \in Procs : BPutCheck(p) \/ BAppendHeader(p) \/ BAppendPayload(p) \/ BPutIndex(p)
    \/ BDeleteIndexRestart
    \/ BCrashRestart

SpecBlob == BInit /\ [][BNext]_vars

\* what is found at the tail of the active file after an unclean stop: six
\* stray bytes (a truncated record), or a whole header with a wrong magic
Garbage == { <<0, 0, 0, 0, 0, 0>>, <<0, 0, 0, 0, 0, 0, 0, 0, 0>> }

\* the engine is closed with no put in progress, garbage is written to the
\* tail of the active data file, and the engine is started again: the index
\* is older than the file
BGarbageRestart ==
    /\ AllBIdle
    /\ Len(brestarts) < MaxRestarts
    /\ brestarts' = Append(brestarts, [kind |-> "garbage", nputs |-> bnputs])
    /\ \E g \in Garbage :
         LET r == Recover(AppendBytes(bdata, g), bindex)
         IN  /\ bdata' = r.data
             /\ bindex' = r.index
    /\ bpc' = [p \in Procs |-> "idle"]
    /\ bloc' = [p \in Procs |-> BIdleLoc]
    /\ bmu' = 0
    /\ UNCHANGED <<bcfg, bnputs, bput>>
    /\ UNCHANGED vkvVars
    /\ UNCHANGED scan
    /\ UNCHANGED listVars

BNextTail == BNext \/ BGarbageRestart

\* the blob engine with unclean stops that leave garbage in the active file
SpecTail == BInit /\ [][BNextTail]_vars

\* the byte a damaged payload carries; no blob callers put contains it
BadByte == 200

\* the data files with the first payload byte of the record of entry e
\* overwritten
Damage(data, e) ==
    [data EXCEPT ![e.file + 1] = [@ EXCEPT ![e.offset + HeaderLen + 1] = BadByte]]

\* the medium damages the payload of an indexed record
BCorrupt ==
    /\ \E h \in DOMAIN bindex : bdata' = Damage(bdata, bindex[h])
    /\ bdata' # bdata
    /\ UNCHANGED <<bcfg, bindex, bpc, bloc, bmu, bnputs, brestarts, bput>>
    /\ UNCHANGED vkvVars
    /\ UNCHANGED scan
    /\ UNCHANGED listVars

BNextCorrupt == BNext \/ BCorrupt

\* the blob engine on a medium that damages stored payloads
SpecCorrupt == BInit /\ [][BNextCorrupt]_vars

----------------------------------------------------------------------------
(* Claims about the blob engine *)

\* C5: blob round trip: once put(SHA1(b), b) has succeeded, get(SHA1(b))
\* returns exactly b, with compression enabled or disabled and whether or not
\* the blob was compressed on disk (reads are refused in write-only mode).
C5_BlobRoundTrip ==
    ~bcfg.writeOnly =>
        \A b \in bput :
            BlobGet(bcfg, bdata, bindex, SHA1(b)) = [err |-> "", blob |-> b]

\* C5 witness: with compression on, a blob stored compressed and a blob
\* stored uncompressed have both been put and both are read back.
C5_Witness ==
    /\ bcfg.compression /\ ~bcfg.writeOnly
    /\ \E b1 \in bput, b2 \in bput :
         /\ bindex[SHA1(b1)].flags = 1
         /\ bindex[SHA1(b2)].flags = 0
         /\ BlobGet(bcfg, bdata, bindex, SHA1(b1)).blob = b1
         /\ BlobGet(bcfg, bdata, bindex, SHA1(b2)).blob = b2

\* C6: in every reachable state, also while a put is appending, every index
\* entry points to a complete record of its data file whose decoded payload
\* hashes back to the entry's hash.
C6_IndexPointsToRecords ==
    \A h \in DOMAIN bindex :
        LET e == bindex[h]
        IN  /\ e.file < Len(bdata)
            /\ ValidRecord(bdata[e.file + 1], e.offset)
            /\ Len(RecordAt(bdata[e.file + 1], e.offset)) = HeaderLen + e.size
            /\ SHA1(decodeBlob(RecordAt(bdata[e.file + 1], e.offset)).blob) = h

\* C6 witness: a put has written its header but not its payload, so the
\* active file ends with an incomplete record, while the index has entries.
C6_Witness ==
    /\ DOMAIN bindex # {}
    /\ \E p \in Procs :
         /\ bpc[p] = "payload"
         /\ ~ValidRecord(bdata[Len(bdata)], bloc[p].entry.offset)
         /\ bloc[p].hash \notin DOMAIN bindex

\* C7: crash recovery: from any state, deleting the index and restarting
\* rebuilds the index from the data files so that every blob put so far is
\* retrievable with identical bytes, and running the rebuild again changes
\* nothing; the state a delete-and-restart leaves is such a fixed point.
C7_RecoveryRebuilds ==
    LET r == Recover(bdata, [h \in {} |-> 0])
        readable == [bcfg EXCEPT !.writeOnly = FALSE]
    IN  /\ \A b \in bput :
             BlobGet(readable, r.data, r.index, SHA1(b)) = [err |-> "", blob |-> b]
        /\ Recover(r.data, r.index) = r
        /\ Recover(r.data, [h \in {} |-> 0]) = r
        /\ (brestarts # <<>> /\ brestarts[Len(brestarts)] = [kind |-> "delete", nputs |-> bnputs])
              => r = [data |-> bdata, index |-> bindex]

\* C7 witness: two blobs were put into two data files, then the index was
\* deleted and the engine restarted, and both blobs are read back.
C7_Witness ==
    /\ Len(brestarts) = 1
    /\ brestarts[1] = [kind |-> "delete", nputs |-> bnputs]
    /\ Cardinality(bput) = 2
    /\ \E b1 \in bput, b2 \in bput : bindex[SHA1(b1)].file # bindex[SHA1(b2)].file
    /\ \A b \in bput :
         BlobGet([bcfg EXCEPT !.writeOnly = FALSE], bdata, bindex, SHA1(b)).blob = b

\* the step is the first step of a put call of p, whose arguments are then
\* bloc'[p].hash and bloc'[p].blob
BPutCalled(p) ==
    /\ bpc[p] = "idle"
    /\ bnputs' = bnputs + 1
    /\ bloc'[p] # bloc[p]

\* C23: blob idempotence: a second put of an already indexed (SHA1(b), b)
\* succeeds as a no-op: it returns ok at once, the index is unchanged, with
\* its one entry for the hash, and no byte is appended to any data file.
C23_SecondPutNoOp ==
    [][ \A p \in Procs :
          ( /\ BPutCalled(p)
            /\ SHA1(bloc'[p].blob) = bloc'[p].hash
            /\ bloc'[p].hash \in DOMAIN bindex )
          => /\ bpc'[p] = "idle"
             /\ bloc'[p].res = "ok"
             /\ bdata' = bdata
             /\ bindex' = bindex ]_vars

\* C23 witness: both writers have put the same blob, one after the other:
\* both puts returned ok and the data files hold the one record of the blob.
C23_Witness ==
    /\ AllBIdle
    /\ brestarts = <<>>
    /\ \E b \in Blobs :
         /\ \A p \in Procs : bloc[p] = BReturned(SHA1(b), b, "ok")
         /\ DOMAIN bindex = { SHA1(b) }
         /\ bdata = << encodeBlob(bcfg.compression, Len(b), b) >>

\* C24: hash safety: for every (h, b) with h # SHA1(b), put(h, b) fails
\* with HashMismatch, nothing is appended and no index entry is created, so
\* that stat(h) is the same before and after.
C24_HashMismatchRejected ==
    [][ \A p \in Procs :
          ( /\ BPutCalled(p)
            /\ SHA1(bloc'[p].blob) # bloc'[p].hash )
          => /\ bpc'[p] = "idle"
             /\ bloc'[p].res = "HashMismatch"
             /\ bdata' = bdata
             /\ bindex' = bindex
             /\ bput' = bput ]_vars

\* C24 witness: after a blob was put, a put of other bytes under a hash
\* that is not indexed has failed with HashMismatch; the hash is still not
\* indexed and the data files hold the one record of the first blob.
C24_Witness ==
    /\ AllBIdle
    /\ \E p \in Procs, b \in bput :
         /\ bloc[p].res = "HashMismatch"
         /\ bloc[p].hash \notin DOMAIN bindex
         /\ SHA1(bloc[p].blob) # bloc[p].hash
         /\ bdata = << encodeBlob(bcfg.compression, Len(b), b) >>

\* the bytes the record of entry e decodes to
DecodedAt(data, e) == decodeBlob(RecordAt(data[e.file + 1], e.offset)).blob

\* C25: get never returns bytes whose SHA-1 differs from the requested
\* hash: when the decoded record does not hash to the requested hash, get
\* returns CorruptBlob (get reads only: the index and the data files are as
\* they were).
C25_GetVerifiesHash ==
    ~bcfg.writeOnly =>
        \A h \in Hashes :
            LET g == BlobGet(bcfg, bdata, bindex, h)
            IN  /\ g.err = "" => SHA1(g.blob) = h
                /\ ( /\ h \in DOMAIN bindex
                      /\ ValidRecord(bdata[bindex[h].file + 1], bindex[h].offset)
                      /\ SHA1(DecodedAt(bdata, bindex[h])) # h )
                    => g = [err |-> "CorruptBlob", blob |-> <<>>]

\* C25 witness: of two indexed blobs one has a damaged record and its get
\* returns CorruptBlob, while the other is still read back.
C25_Witness ==
    /\ ~bcfg.writeOnly
    /\ \E h1 \in DOMAIN bindex, h2 \in DOMAIN bindex :
         /\ BlobGet(bcfg, bdata, bindex, h1).err = "CorruptBlob"
         /\ DecodedAt(bdata, bindex[h1])[1] = BadByte
         /\ BlobGet(bcfg, bdata, bindex, h2).err = ""

\* the file is a sequence of whole records of blobs
RECURSIVE IsRecords(_)
IsRecords(file) ==
    \/ file = <<>>
    \/ \E b \in Blobs :
         LET rec == encodeBlob(bcfg.compression, Len(b), b)
         IN  /\ Len(rec) <= Len(file)
             /\ SubSeq(file, 1, Len(rec)) = rec
             /\ IsRecords(SubSeq(file, Len(rec) + 1, Len(file)))

\* C26: truncated tail: when the active data file ends with a record that
\* has a wrong magic or is truncated, reopening cuts the file at its last
\* good offset before it is written again, so that whenever no append is in
\* progress every data file is a sequence of whole records; every blob put
\* before is still retrievable, and so is every blob put afterwards.
C26_TruncatedTail ==
    /\ bmu = 0 => \A n \in 1..Len(bdata) : IsRecords(bdata[n])
    /\ \A b \in bput :
         BlobGet([bcfg EXCEPT !.writeOnly = FALSE], bdata, bindex, SHA1(b)).blob = b

\* C26 witness: a blob was put, the engine was reopened on a garbage tail,
\* and a blob put after the reopening is retrievable.
C26_Witness ==
    /\ Len(brestarts) = 1
    /\ brestarts[1] = [kind |-> "garbage", nputs |-> 1]
    /\ bnputs = 2
    /\ Cardinality(bput) = 2
    /\ Cardinality(DOMAIN bindex) = 2
    /\ AllBIdle

C28_WriteOnly ==
    bcfg.writeOnly =>
        /\ \A h \in Hashes :
              /\ BlobGet(bcfg, bdata, bindex, h) = [err |-> "WriteOnly", blob |-> <<>>]
              /\ BlobStat(bcfg, bindex, h).err = "WriteOnly"
        /\ \A p \in Procs : bloc[p].res \in {"", "ok", "HashMismatch"}
        /\ \A b \in bput : SHA1(b) \in DOMAIN bindex

\* C28 witness: a write-only engine has stored one blob and not another;
\* its put returned ok, and Get and Stat are refused for both hashes.
C28_Witness ==
    /\ bcfg.writeOnly
    /\ \E p \in Procs : bloc[p].res = "ok" /\ bloc[p].hash \in DOMAIN bindex
    /\ \E h1 \in Hashes, h2 \in Hashes :
         /\ h1 \in DOMAIN bindex
         /\ h2 \notin DOMAIN bindex
         /\ BlobGet(bcfg, bdata, bindex, h1).err = "WriteOnly"
         /\ BlobStat(bcfg, bindex, h2).err = "WriteOnly"

\* the records the puts in progress have encoded
Encoded == { p \in Procs : bloc[p].rec # <<>> }

----------------------------------------------------------------------------
(* The raw keys of vkv *)

\* C31: the item key encoding preserves version order within one key: for
\* every key k and versions v1 < v2 that Puts wrote, encodeKey(k, v1) sorts
\* bytewise strictly before encodeKey(k, v2), and decodeKey(encodeKey(k, v))
\* returns (k, v).  (Refuted: the version is cut to 32 bits in the raw key.)
C31_EncodeKeyOrdered ==
    /\ \A h1 \in DOMAIN hist, h2 \in DOMAIN hist :
          (h1[1] = h2[1] /\ IntLess(h1[2], h2[2])) =>
              BytesLess(encodeKey(h1[1], h1[2]), encodeKey(h2[1], h2[2]))
    /\ \A h \in DOMAIN hist :
          decodeKey(encodeKey(h[1], h[2])) = [key |-> h[1], index |-> h[2]]

\* Put calls per behaviour, specification of the frame of Put
MaxFramePuts == 3

\* keys of the frame specification: a key, a key it is a prefix of, and a key
\* that holds a namespace tag byte ("\x04a" is the inner counter key of "a")
FrameKeys == { <<97>>, <<97, 98>>, <<KvVersionCnt, 97>> }

\* versions of the frame specification, below and above 2^32
FrameVersions == { ToInt(1), <<1, 1>> }

\* a Put on one of the frame keys starts when no call is in progress
FrameCall(p) ==
    AllIdle /\ PutCallFrom(p, MaxFramePuts, FrameKeys, {<<120>>}, FrameVersions)

\* Puts on the frame keys, one at a time
NextFrame == FrameCall(1) \/ PutStep(1)

SpecFrame == Init /\ [][NextFrame]_vars

\* the raw keys that belong to `key`: its counters, its marker, its items
RawKeysOf(key) ==
    UNION { PutRawKeys(key, v) : v \in FrameVersions }

\* what the readers return for `key`: Get at every version and at -1,
\* Versions for every range and limit, VersionCnt, version_min, version_max
Observed(store, key) ==
    [get |-> [v \in FrameVersions \cup {MinusOne} |-> Get(store, key, v)],
     versions |-> [a \in FrameVersions \X FrameVersions \X {0, 1} |->
                     VersionsOf(store, key, a[1], a[2], a[3])],
     cnt |-> VersionCnt(store, key),
     min |-> VersionMin(store, key),
     max |-> VersionMax(store, key)]

\* the key of the Put that takes the step
StepKey == IF pc[1] = "idle" THEN loc'[1].key ELSE loc[1].key

\* the raw keys whose content the step changes
Changed ==
    { r \in (DOMAIN kv) \cup (DOMAIN kv') : DbGet(kv', r) # DbGet(kv, r) }

\* C32: every step of a Put on key k writes only raw keys that belong to k,
\* and for every other key k2 (also when one key is a prefix of the other or
\* holds namespace tag bytes) the results of Get, Versions, VersionCnt and the
\* min / max of k2 are unchanged; the raw keys of distinct keys are distinct.
C32_PutFrame ==
    [][ /\ Changed \subseteq RawKeysOf(StepKey)
        /\ \A k2 \in FrameKeys \ {StepKey} :
              /\ RawKeysOf(k2) \cap RawKeysOf(StepKey) = {}
              /\ Observed(kv', k2) = Observed(kv, k2) ]_vars

\* C32 witness: "a" holds an item and its counters, and Puts on "ab", of
\* which "a" is a prefix, and on "\x04a", which starts with a tag byte, have
\* returned
C32_Witness ==
    /\ AllIdle
    /\ VersionCnt(kv, <<97>>) = 1
    /\ \E v \in FrameVersions : <<<<97, 98>>, v>> \in returned
    /\ \E v \in FrameVersions : <<<<KvVersionCnt, 97>>, v>> \in returned

----------------------------------------------------------------------------
(* The git storage adapter (pkg/gitserver), over the key-value store *)

\* Put calls the adapter makes per behaviour
MaxGitPuts == 3

\* the namespace and the repository name of the storage, "n" and "p"
GitNs == <<110>>
GitName == <<112>>

\* storage.key: fmt.Sprintf("_git:%s:%s/%s/%s", s.ns, s.name, prefix, key)
GitKey(prefix, key) ==
    <<95, 103, 105, 116, 58>> \o GitNs \o <<58>> \o GitName \o <<47>>
        \o prefix \o <<47>> \o key

\* the prefix of the reference keys, "r"
RefPrefix == <<114>>

\* reference names, "a" and "b", and the hash a reference points to, "x"
RefNames == { <<97>>, <<98>> }
RefTargets == { <<120>> }

\* plumbing.HEAD
HEAD == <<72, 69, 65, 68>>

\* the name of the reference stored under a key: the key without the prefix
RefNameOf(key) == SubSeq(key, Len(GitKey(RefPrefix, <<>>)) + 1, Len(key))

\* kvStore.Get(key, -1) of the key-value engine: version -1 resolves to
\* version_max; when that is zero the key is not found; else the item at
\* that version, an empty value included
KvStoreGet(store, key) ==
    IF VersionMax(store, key) = 0
        THEN [err |-> "ErrNotFound", data |-> <<>>]
        ELSE [err |-> NoError, data |-> Get(store, key, MinusOne).value]

\* kvStore.Keys(start, end, -1) of the key-value engine, without a limit:
\* the user keys of the key-existence markers in the range, in byte order
KvStoreKeys(store, start, end) ==
    LET from == encodeMeta(KvKeyIndex, start)
        to == encodeMeta(KvKeyIndex, end)
        marks == SortRaw({ r \in DOMAIN store : BytesLeq(from, r) /\ BytesLeq(r, to) })
    IN  [i \in 1..Len(marks) |-> Tail(marks[i])]

\* storage.SetReference: kvStore.Put(key("r", name), target, -1)
SetReference(p) ==
    AllIdle /\ PutCallFrom(p, MaxGitPuts, { GitKey(RefPrefix, n) : n \in RefNames },
                           RefTargets, {MinusOne})

\* storage.RemoveReference: kvStore.Put(key("r", name), nil, -1)
RemoveReference(p) ==
    AllIdle /\ PutCallFrom(p, MaxGitPuts, { GitKey(RefPrefix, n) : n \in RefNames },
                           {<<>>}, {MinusOne})

\* storage.Reference: HEAD is symbolic; a key that is not found, or whose
\* latest version is empty, is ErrReferenceNotFound
Reference(store, name) ==
    IF name = HEAD THEN [err |-> NoError, ref |-> <<HEAD, <<>>>>]
    ELSE LET got == KvStoreGet(store, GitKey(RefPrefix, name))
         IN  IF got.err = "ErrNotFound" \/ got.data = <<>>
                 THEN [err |-> "ErrReferenceNotFound", ref |-> <<>>]
                 ELSE [err |-> NoError, ref |-> <<name, got.data>>]

\* storage.IterReferences: one reference per key of the range "r/" .. "r/\xff"
IterReferences(store) ==
    LET rawRefs == KvStoreKeys(store, GitKey(RefPrefix, <<>>), GitKey(RefPrefix, <<255>>))
    IN  [i \in 1..Len(rawRefs) |->
            <<RefNameOf(rawRefs[i]), KvStoreGet(store, rawRefs[i]).data>>]

\* storage.CountLooseRefs: the number of keys of the range
CountLooseRefs(store) ==
    Len(KvStoreKeys(store, GitKey(RefPrefix, <<>>), GitKey(RefPrefix, <<255>>)))

\* references are set and removed, one call at a time
NextGit == SetReference(1) \/ RemoveReference(1) \/ PutStep(1)

SpecGit == Init /\ [][NextGit]_vars

\* the last operation on reference n was a RemoveReference that returned: a
\* Put on its key has returned and the last write at every version of the
\* key was the empty value
Removed(n) ==
    /\ AllIdle
    /\ \E h \in returned : h[1] = GitKey(RefPrefix, n)
    /\ \A h \in DOMAIN hist : h[1] = GitKey(RefPrefix, n) => hist[h] = <<>>

\* C36: a removed reference is a tombstone that every read treats as absent:
\* after RemoveReference(n), until a later SetReference(n), Reference(n)
\* returns ErrReferenceNotFound, and IterReferences and CountLooseRefs do not
\* include n.  (Refuted: both list every key of the range, removed or not.)
C36_RemovedIsAbsent ==
    \A n \in RefNames :
        Removed(n) =>
            /\ Reference(kv, n).err = "ErrReferenceNotFound"
            /\ \A i \in 1..Len(IterReferences(kv)) : IterReferences(kv)[i][1] # n
            /\ CountLooseRefs(kv) <= Cardinality(RefNames \ {n})

----------------------------------------------------------------------------
(* The lists of the db package (db/list.go), over LevelDB *)

\* Ladd / Ldel calls per behaviour
MaxListOps == 3

\* namespace bytes of the db package
List == 8
ListLen == 9

\* values of list elements, "x" and "y"
LValues == { <<120>>, <<121>> }

\* indexes passed to Ladd, as the 32-bit pattern of uint32(index): 0, 1 and
\* 0xff000001 (-16777215 as a signed word)
LIndexes == { 0, 1, -16777215 }

\* indexes below 0xff000000
LowIndexes == { 0, 1 }

\* list.go:37-42: the 4 index bytes of the raw key, zero where indexbyte is shorter
Pad4(indexbyte) == [i \in 1..4 |-> IF i <= Len(indexbyte) THEN indexbyte[i] ELSE 0]

\* keyList: List + LE32(len(key)) + key + the index bytes
keyList(key, indexbyte) ==
    <<List>> \o PutLE32(Len(key)) \o key \o Pad4(indexbyte)

\* keyList for an int index: binary.BigEndian.PutUint32(indexbyte, uint32(k))
keyListInt(key, index) == keyList(key, PutBE32(index))

\* listLen: ListLen + key
listLen(key) == <<ListLen>> \o key

\* KeyType(key, kType): the key under its type byte
KeyType(key, kType) == <<kType>> \o key

\* the raw key of the length of a list: KeyType(listLen(bkey), Meta)
CardKey(key) == KeyType(listLen(key), Meta)

\* db.del: the key is removed
DbDel(store, key) == [r \in (DOMAIN store) \ {key} |-> store[r]]

\* GetRange(db, ro, start, end, 0): the raw keys of the lexicographical range
\* [start, end], in byte order
GetRange(store, start, end) ==
    SortRaw({ r \in DOMAIN store : BytesLeq(start, r) /\ BytesLeq(r, end) })

\* DB.Llen
Llen(store, key) == getUint32(store, CardKey(key))

\* DB.Liter: the values of the range keyList(key, []byte{}) .. keyList(key, "\xff")
Liter(store, key) ==
    LET kvs == GetRange(store, keyList(key, <<>>), keyList(key, <<255>>))
    IN  [i \in 1..Len(kvs) |-> store[kvs[i]]]

\* no list call is in progress
AllLIdle == \A p \in Procs : lpc[p] = "idle"

\* a db.mutex.Lock that never waits
LockFreeAlways(m, key) == TRUE

\* db.mutex.Lock(bkey) can proceed: no one holds the lock of the key
LockFree(m, key) == m[key] = 0

\* list.go:73-77: Ladd(key, index, value) takes the lock of the key
LaddLock(p, limit, indexes) ==
    /\ lpc[p] = "idle"
    /\ lnops < limit
    /\ \E k \in LKeys, i \in indexes, v \in LValues :
         /\ LockFree(lmu, k)
         /\ lmu' = [lmu EXCEPT ![k] = p]
         /\ lloc' = [lloc EXCEPT ![p] =
                       [LIdleLoc EXCEPT !.op = "ladd", !.key = k, !.index = i, !.value = v]]
    /\ lpc' = [lpc EXCEPT ![p] = "get"]
    /\ lnops' = lnops + 1
    /\ UNCHANGED ldb
    /\ UNCHANGED vkvVars
    /\ UNCHANGED blobVars
    /\ UNCHANGED scan

\* list.go:78: cval, _ := db.ldb.Get(db.ro, kmember)
LaddGet(p) ==
    /\ lpc[p] = "get"
    /\ lloc' = [lloc EXCEPT ![p].cval = DbGet(ldb, keyListInt(lloc[p].key, lloc[p].index))]
    /\ lpc' = [lpc EXCEPT ![p] = "put"]
    /\ UNCHANGED <<ldb, lmu, lnops>>
    /\ UNCHANGED vkvVars
    /\ UNCHANGED blobVars
    /\ UNCHANGED scan

\* an Ladd that counts every call as a new element
IsNewAlways(cval) == TRUE

\* list.go:80: cval == nil
IsNew(cval) == cval = NIL

\* list.go:79-80: db.ldb.Put(db.wo, kmember, []byte(value)) and the test of cval
LaddPut(p) ==
    /\ lpc[p] = "put"
    /\ ldb' = DbSet(ldb, keyListInt(lloc[p].key, lloc[p].index), lloc[p].value)
    /\ lpc' = [lpc EXCEPT ![p] = IF IsNew(lloc[p].cval) THEN "incrGet" ELSE "unlock"]
    /\ UNCHANGED <<lmu, lloc, lnops>>
    /\ UNCHANGED vkvVars
    /\ UNCHANGED blobVars
    /\ UNCHANGED scan

\* list.go:81-82: db.incrUint32(KeyType(cardkey, Meta), 1), its read
LaddIncrGet(p) ==
    /\ lpc[p] = "incrGet"
    /\ lloc' = [lloc EXCEPT ![p].tmp = getUint32(ldb, CardKey(lloc[p].key))]
    /\ lpc' = [lpc EXCEPT ![p] = "incrSet"]
    /\ UNCHANGED <<ldb, lmu, lnops>>
    /\ UNCHANGED vkvVars
    /\ UNCHANGED blobVars
    /\ UNCHANGED scan

\* list.go:82: db.incrUint32, its write
LaddIncrSet(p) ==
    /\ lpc[p] = "incrSet"
    /\ ldb' = putUint32(ldb, CardKey(lloc[p].key), incrValue(lloc[p].tmp, 1))
    /\ lpc' = [lpc EXCEPT ![p] = "unlock"]
    /\ UNCHANGED <<lmu, lloc, lnops>>
    /\ UNCHANGED vkvVars
    /\ UNCHANGED blobVars
    /\ UNCHANGED scan

\* list.go:76,84: the deferred db.mutex.Unlock(bkey) and the return
LaddUnlock(p) ==
    /\ lpc[p] = "unlock"
    /\ lmu' = [lmu EXCEPT ![lloc[p].key] = 0]
    /\ lloc' = [lloc EXCEPT ![p] = LIdleLoc]
    /\ lpc' = [lpc EXCEPT ![p] = "idle"]
    /\ UNCHANGED <<ldb, lnops>>
    /\ UNCHANGED vkvVars
    /\ UNCHANGED blobVars
    /\ UNCHANGED scan

LaddStep(p) ==
    \/ LaddGet(p)
    \/ LaddPut(p)
    \/ LaddIncrGet(p)
    \/ LaddIncrSet(p)
    \/ LaddUnlock(p)

\* list.go:118-129: Ldel(key) locks the key, takes a snapshot, unlocks, and
\* reads the range of the list from the snapshot
LdelSnap(p, limit) ==
    /\ lpc[p] = "idle"
    /\ lnops < limit
    /\ \E k \in LKeys :
         /\ LockFree(lmu, k)
         /\ lloc' = [lloc EXCEPT ![p] =
                       [LIdleLoc EXCEPT !.op = "ldel", !.key = k,
                            !.kvs = GetRange(ldb, keyList(k, <<>>), keyList(k, <<255>>))]]
    /\ lpc' = [lpc EXCEPT ![p] = "del"]
    /\ lnops' = lnops + 1
    /\ UNCHANGED <<ldb, lmu>>
    /\ UNCHANGED vkvVars
    /\ UNCHANGED blobVars
    /\ UNCHANGED scan

\* list.go:133-138: db.del([]byte(kv.Key)) for the next key of the range
LdelDel(p) ==
    /\ lpc[p] = "del"
    /\ lloc[p].kvs # <<>>
    /\ ldb' = DbDel(ldb, Head(lloc[p].kvs))
    /\ lloc' = [lloc EXCEPT ![p].kvs = Tail(@)]
    /\ UNCHANGED <<lmu, lpc, lnops>>
    /\ UNCHANGED vkvVars
    /\ UNCHANGED blobVars
    /\ UNCHANGED scan

\* list.go:139-141: db.del(KeyType(cardkey, Meta)) and the return
LdelCard(p) ==
    /\ lpc[p] = "del"
    /\ lloc[p].kvs = <<>>
    /\ ldb' = DbDel(ldb, CardKey(lloc[p].key))
    /\ lloc' = [lloc EXCEPT ![p] = [LIdleLoc EXCEPT !.op = "ldel", !.key = lloc[p].key]]
    /\ lpc' = [lpc EXCEPT ![p] = "idle"]
    /\ UNCHANGED <<lmu, lnops>>
    /\ UNCHANGED vkvVars
    /\ UNCHANGED blobVars
    /\ UNCHANGED scan

\* Ladds of two goroutines overlap
NextLadd == \E p \in Procs : LaddLock(p, MaxListOps, LIndexes) \/ LaddStep(p)

SpecLadd == Init /\ [][NextLadd]_vars

\* Ladds and Ldels of two goroutines overlap, with indexes below 0xff000000
NextLdel ==
    \E p \in Procs :
        \/ LaddLock(p, MaxListOps, LowIndexes)
        \/ LaddStep(p)
        \/ LdelSnap(p, MaxListOps)
        \/ LdelDel(p)
        \/ LdelCard(p)

SpecLdel == Init /\ [][NextLdel]_vars

\* the raw keys of the elements stored for the list `key`
Elements(store, key) ==
    { r \in DOMAIN store :
        /\ r[1] = List
        /\ Len(r) = Len(key) + 9
        /\ SubSeq(r, 1, 5 + Len(key)) = <<List>> \o PutLE32(Len(key)) \o key }

\* no Ladd or Ldel on the list `key` is in progress
Quiet(key) == \A p \in Procs : lpc[p] # "idle" => lloc[p].key # key

\* C33: Llen(key) equals the number of distinct indexes stored for key: an
\* Ladd at a new index increments it by one and an Ladd at an existing index
\* overwrites the value without incrementing, also after Ladds on the same
\* key ran concurrently.  Stated whenever no Ladd on the key is in progress.
C33_LlenCounts ==
    \A k \in LKeys :
        Quiet(k) => Llen(ldb, k) = Cardinality(Elements(ldb, k))

\* C33 witness: three Ladds on "a" have returned, one of them at an index
\* that was stored already, and Llen("a") is 2
C33_Witness ==
    /\ AllLIdle
    /\ lnops = 3
    /\ Llen(ldb, <<97>>) = 2
    /\ Elements(ldb, <<97, 98>>) = {}

\* C34: Liter(key) returns the values of all elements added to the list by
\* Ladd, for every 32-bit index, sorted by index ascending, and no element of
\* any other list.  (Refuted: the range ends at keyList(key, "\xff"), below
\* the raw keys of the indexes above 0xff000000.)
C34_LiterAll ==
    \A k \in LKeys :
        Quiet(k) =>
            LET all == SortRaw(Elements(ldb, k))
            IN  Liter(ldb, k) = [i \in 1..Len(all) |-> ldb[all[i]]]

\* C35: Ldel(key) deletes the entire list: after it returns, with no other
\* call on the key in progress, Liter(key) is empty and Llen(key) is 0; and
\* when an Ladd on the same key runs concurrently with the Ldel, Llen(key)
\* still equals the number of elements stored for key once both have
\* returned.  (Refuted: Ldel deletes the elements of its snapshot and the
\* length outside the lock, so an Ladd made meanwhile is stored with length 0.)
C35_LdelWhole ==
    /\ [](\A k \in LKeys : Quiet(k) => Llen(ldb, k) = Cardinality(Elements(ldb, k)))
    /\ [][\A p \in Procs :
            (LdelCard(p) /\ \A q \in Procs \ {p} : lpc[q] = "idle") =>
                /\ Liter(ldb', lloc[p].key) = <<>>
                /\ Llen(ldb', lloc[p].key) = 0]_vars
====
